---- MODULE Spec2Model ----
(***************************************************************************)
(* Model of the render path of the B-roll insertion service:               *)
(*   backend/app/video_renderer.py  render_final_video, get_video_info,    *)
(*                                  download_video_file                    *)
(*   backend/app/main.py            render_video / do_render               *)
(*                                                                         *)
(* Times are integers in tenths of a second (0.3 s is 3).  A path is a     *)
(* record [dir, name]; a filter-graph fragment is a record holding the     *)
(* pads it reads, the pad it writes and the numbers the code formats into  *)
(* it.  A pad is a pair <<name, index>>: <<"src", k>> is "[k:v]",          *)
(* <<"b", i>> is "[b{i}]", <<"bdelayed", i>> is "[b{i}delayed]",           *)
(* <<"v", i>> is "[v{i}]", <<"aroll", 0>> is "[aroll]" and                 *)
(* <<"vout", 0>> is "[vout]".                                              *)
(***************************************************************************)
EXTENDS Integers, Sequences, FiniteSets, TLC

\* ------------------------------------------------------------ bounds
\* Longest list of insertions a plan carries.
MaxIns == 3
\* Number of POST /render-video requests the service receives.
NumRequests == 2
\* Last value of the event loop's clock, in milliseconds.
MaxClock == 2

\* ------------------------------------------------- program constants
\* TRANSITION_DURATION = 0.3 s, in tenths of a second.
TRANSITION_DURATION == 3

\* ------------------------------------------------------ input domains
Starts == {30, 75, 120}
Durations == {2, 6}
ClipIds == {"A", "B"}
\* stderr texts of the render engine, as sequences of lines.
Diagnostics == {<<"Invalid file index">>, <<"Conversion failed!">>}

\* BRollInsertion: the fields the renderer reads.
BRollInsertion == [start_sec : Starts, duration_sec : Durations, broll_id : ClipIds]

SeqsUpTo(S, n) == UNION {[1..k -> S] : k \in 0..n}

\* The b_rolls lists of a plan (BRollClip ids, in list order).
BRollLists == {<<>>, <<"A">>, <<"A", "B">>}

\* What ffprobe reports for the A-roll: width, height and r_frame_rate "N/D".
ProbeOutputs == {[width |-> 1920, height |-> 1080, r_frame_rate |-> <<30, 1>>]}
NoInfo == [width |-> 0, height |-> 0, fps |-> 0]

NoPath == [dir |-> "none", name |-> "none"]
TempPath(name) == [dir |-> "temp", name |-> name]
OutputPath(name) == [dir |-> "outputs", name |-> name]

\* ------------------------------------------------------ pure helpers
Max(a, b) == IF a >= b THEN a ELSE b

\* Mutant of InsertByStart: an element goes before the elements of equal key.
RECURSIVE InsertBeforeEqual(_, _)
InsertBeforeEqual(s, x) ==
    IF s = <<>> THEN <<x>>
    ELSE IF Head(s).start_sec < x.start_sec
         THEN <<Head(s)>> \o InsertBeforeEqual(Tail(s), x)
         ELSE <<x>> \o s

\* sorted(insertions, key=lambda x: x.start_sec): Python's sort is stable, so
\* an element goes after every element whose key is not greater than its own.
RECURSIVE InsertByStart(_, _)
InsertByStart(s, x) ==
    IF s = <<>> THEN <<x>>
    ELSE IF Head(s).start_sec <= x.start_sec
         THEN <<Head(s)>> \o InsertByStart(Tail(s), x)
         ELSE <<x>> \o s

RECURSIVE SortFrom(_, _)
SortFrom(acc, s) ==
    IF s = <<>> THEN acc ELSE SortFrom(InsertByStart(acc, Head(s)), Tail(s))

SortedByStart(s) == SortFrom(<<>>, s)

\* b_roll_paths.get(insertion.broll_id) is truthy
Resolves(paths, insertion) == paths[insertion.broll_id] # NoPath

\* inputs = ["-i", a_roll_path] followed by "-i", path for every sorted
\* insertion whose clip id is a key of b_roll_paths.
RECURSIVE ExtendInputs(_, _, _)
ExtendInputs(acc, s, paths) ==
    IF s = <<>> THEN acc
    ELSE ExtendInputs(IF Resolves(paths, Head(s))
                      THEN Append(acc, paths[Head(s).broll_id])
                      ELSE acc,
                      Tail(s), paths)

BuildInputs(a_roll_path, s, paths) == ExtendInputs(<<a_roll_path>>, s, paths)

\* Mutant of FadeOutStart: the max(0, ...) is left out.
FadeOutStartUnclamped(duration) == duration - TRANSITION_DURATION

\* fade_out_start = max(0, duration - TRANSITION_DURATION)
FadeOutStart(duration) == Max(0, duration - TRANSITION_DURATION)

\* "[0:v]fps={fps},format=yuv420p[aroll]"
PrepareARoll(info) ==
    [op |-> "prepare", ins |-> <<<<"src", 0>>>>, out |-> <<"aroll", 0>>,
     fps |-> info.fps]

\* Mutant of PrepareBRoll: the output pad is not named by the index.
PrepareBRollOnePad(i, insertion, info) ==
    [op |-> "normalize", ins |-> <<<<"src", i + 1>>>>, out |-> <<"b", 0>>,
     fps |-> info.fps, width |-> info.width, height |-> info.height,
     trim |-> insertion.duration_sec,
     fade_in_start |-> 0, fade_out_start |-> Max(0, insertion.duration_sec - TRANSITION_DURATION),
     fade_d |-> TRANSITION_DURATION]

\* "[{i+1}:v]fps=..,scale=..,pad=..,setpts,trim=duration={duration},setpts,
\*  format,fade=t=in:st=0:d=T,fade=t=out:st={fade_out_start}:d=T[b{i}]"
PrepareBRoll(i, insertion, info) ==
    [op |-> "normalize", ins |-> <<<<"src", i + 1>>>>, out |-> <<"b", i>>,
     fps |-> info.fps, width |-> info.width, height |-> info.height,
     trim |-> insertion.duration_sec,
     fade_in_start |-> 0, fade_out_start |-> FadeOutStart(insertion.duration_sec),
     fade_d |-> TRANSITION_DURATION]

\* "[b{i}]setpts=PTS+{start_sec}/TB[b{i}delayed]"
DelayBRoll(i, insertion) ==
    [op |-> "timeshift", ins |-> <<<<"b", i>>>>, out |-> <<"bdelayed", i>>,
     shift |-> insertion.start_sec]

\* next_output = "[v{i}]" if i < len(sorted_insertions) - 1 else "[vout]"
NextOutput(i, n) == IF i < n - 1 THEN <<"v", i>> ELSE <<"vout", 0>>

\* "{current_base}[b{i}delayed]overlay=0:0:eof_action=pass{next_output}"
Overlay(i, current_base, next_output) ==
    [op |-> "compose", ins |-> <<current_base, <<"bdelayed", i>>>>,
     out |-> next_output, eof_action |-> "pass"]

\* "[aroll]copy[vout]"
CopyARoll == [op |-> "copy", ins |-> <<<<"aroll", 0>>>>, out |-> <<"vout", 0>>]

\* First loop: one fragment per sorted insertion, index i = k - 1.
PrepareAll(s, info) == [k \in 1..Len(s) |-> PrepareBRoll(k - 1, s[k], info)]

\* Mutant of OverlayChain: current_base is never advanced, every overlay is
\* composed onto "[aroll]".
RECURSIVE OverlayChainOnARoll(_, _, _)
OverlayChainOnARoll(i, current_base, s) ==
    IF i >= Len(s) THEN <<>>
    ELSE <<[op |-> "timeshift", ins |-> <<<<"b", i>>>>, out |-> <<"bdelayed", i>>,
            shift |-> s[i + 1].start_sec],
           [op |-> "compose", ins |-> <<current_base, <<"bdelayed", i>>>>,
            out |-> IF i < Len(s) - 1 THEN <<"v", i>> ELSE <<"vout", 0>>,
            eof_action |-> "pass"]>>
         \o OverlayChainOnARoll(i + 1, current_base, s)

\* Second loop: the overlay chain from index i on, with the running
\* current_base.
RECURSIVE OverlayChain(_, _, _)
OverlayChain(i, current_base, s) ==
    IF i >= Len(s) THEN <<>>
    ELSE LET next_output == NextOutput(i, Len(s))
         IN <<DelayBRoll(i, s[i + 1]), Overlay(i, current_base, next_output)>>
            \o OverlayChain(i + 1, next_output, s)

\* Mutant of FilterParts: the "no insertions" case is not handled.
FilterPartsNoCopy(s, info) ==
    <<PrepareARoll(info)>>
    \o PrepareAll(s, info)
    \o OverlayChain(0, <<"aroll", 0>>, s)

FilterParts(s, info) ==
    <<PrepareARoll(info)>>
    \o PrepareAll(s, info)
    \o OverlayChain(0, <<"aroll", 0>>, s)
    \o (IF s = <<>> THEN <<CopyARoll>> ELSE <<>>)

\* Mutant of Command: the audio is mapped from source 1.
CommandAudioFromOverlay(ins, parts, output_path) ==
    [inputs |-> ins, filter_complex |-> parts,
     maps |-> <<[kind |-> "pad", pad |-> <<"vout", 0>>],
                [kind |-> "stream", source |-> 1, stream |-> "a"]>>,
     output_path |-> output_path]

\* The ffmpeg command: the sources, the graph, the "-map" options in order
\* ("-map [vout]", "-map 0:a") and the output path.
Command(ins, parts, output_path) ==
    [inputs |-> ins, filter_complex |-> parts,
     maps |-> <<[kind |-> "pad", pad |-> <<"vout", 0>>],
                [kind |-> "stream", source |-> 0, stream |-> "a"]>>,
     output_path |-> output_path]

\* fps = float(N) / float(D)
ParseInfo(probe) ==
    [width |-> probe.width, height |-> probe.height,
     fps |-> probe.r_frame_rate[1] \div probe.r_frame_rate[2]]

\* RuntimeError(f"FFmpeg error: {process.stderr}")
FFmpegError(stderr) == [kind |-> "RuntimeError", text |-> <<"FFmpeg error: ">> \o stderr]

\* The render engine rejects a graph that reads a source the command does not
\* list, or a pad no fragment writes.
PadsWritten(parts) == {parts[k].out : k \in 1..Len(parts)}
GraphLoads(c) ==
    \A k \in 1..Len(c.filter_complex) :
        \A j \in 1..Len(c.filter_complex[k].ins) :
            LET pad == c.filter_complex[k].ins[j]
            IN IF pad[1] = "src" THEN pad[2] < Len(c.inputs)
               ELSE pad \in PadsWritten(c.filter_complex)

VARIABLES
    insertions,      \* plan.insertions, as submitted
    b_rolls,         \* plan.b_rolls (clip ids), as submitted
    pc,              \* position of the job
    processing_status, \* processing_status[job_id]; "none" before submission
    temp_dir,        \* TRUE while the job's temporary directory exists
    temp_files,      \* names of the files in the temporary directory
    dl_next,         \* index of the next b_roll to download
    b_roll_paths,    \* dict clip id -> local path (NoPath: key absent)
    a_roll_info,     \* result of get_video_info
    sorted_insertions,
    inputs,          \* the paths following each "-i", in order
    filter_parts,
    cmd,             \* the parts of the ffmpeg command the claims read
    ffmpeg_runs,     \* number of subprocess.run(cmd) calls made
    process,         \* the completed ffmpeg process: returncode, stderr
    output_file,     \* file at the final output path: "absent", "partial", "complete"
    exc,             \* the exception in flight or raised: "none" or a record
    result,          \* value returned by render_final_video, or NoPath
    \* The service with several requests in flight (main.py):
    loop_time,       \* int(asyncio.get_event_loop().time() * 1000)
    processing_status_dict, \* the processing_status dict: job id -> entry
    requests,        \* per request: position, the job_id its closure holds,
                     \* and the outcome of its own do_render
    output_files     \* per job id, the file OUTPUT_DIR/{job_id}.mp4

renderVars == <<insertions, b_rolls, pc, processing_status, temp_dir, temp_files,
                dl_next, b_roll_paths, a_roll_info, sorted_insertions, inputs,
                filter_parts, cmd, ffmpeg_runs, process, output_file, exc, result>>
serviceVars == <<loop_time, processing_status_dict, requests, output_files>>
vars == <<renderVars, serviceVars>>

\* Job ids: f"render_{ms}" for the clock values ms.
JobIds == 0..MaxClock
Requests == 1..NumRequests
NoEntry == [status |-> "none"]
NoFile == [state |-> "absent", by |-> 0]

\* The service before any request.
ServiceIdle ==
    /\ loop_time = 0
    /\ processing_status_dict = [id \in JobIds |-> NoEntry]
    /\ requests = [r \in Requests |-> [pc |-> "idle", job_id |-> 0, outcome |-> "none"]]
    /\ output_files = [id \in JobIds |-> NoFile]

NoExc == [kind |-> "none", text |-> <<>>]
NoCmd == [inputs |-> <<>>, filter_complex |-> <<>>, maps |-> <<>>,
          output_path |-> NoPath]
\* subprocess.run's result; returncode -1 stands for "not run yet".
NoProcess == [returncode |-> -1, stderr |-> <<>>]

JobFile == "render_job.mp4"

Init ==
    /\ insertions \in SeqsUpTo(BRollInsertion, MaxIns)
    /\ b_rolls \in BRollLists
    /\ pc = "idle"
    /\ processing_status = [status |-> "none"]
    /\ temp_dir = FALSE
    /\ temp_files = {}
    /\ dl_next = 1
    /\ b_roll_paths = [c \in ClipIds |-> NoPath]
    /\ a_roll_info = NoInfo
    /\ sorted_insertions = <<>>
    /\ inputs = <<>>
    /\ filter_parts = <<>>
    /\ cmd = NoCmd
    /\ ffmpeg_runs = 0
    /\ process = NoProcess
    /\ output_file = "absent"
    /\ exc = NoExc
    /\ result = NoPath
    /\ ServiceIdle

\* POST /render-video: the handler registers the job and schedules do_render.
RenderVideo ==
    /\ pc = "idle"
    /\ processing_status' = [status |-> "processing", progress |-> 0]
    /\ pc' = "scheduled"
    /\ UNCHANGED <<insertions, b_rolls, temp_dir, temp_files, dl_next,
                   b_roll_paths, a_roll_info, sorted_insertions, inputs,
                   filter_parts, cmd, ffmpeg_runs, process, output_file, exc, result>>
    /\ UNCHANGED serviceVars

\* do_render: load_sample_data() returns, or raises and the job is marked failed
\* without render_final_video being called.
LoadSampleData ==
    /\ pc = "scheduled"
    /\ \/ /\ pc' = "mkdtemp"
          /\ UNCHANGED processing_status
       \/ /\ pc' = "done"
          /\ processing_status' = [status |-> "failed", error |-> <<"sample data unreadable">>]
    /\ UNCHANGED <<insertions, b_rolls, temp_dir, temp_files, dl_next,
                   b_roll_paths, a_roll_info, sorted_insertions, inputs,
                   filter_parts, cmd, ffmpeg_runs, process, output_file, exc, result>>
    /\ UNCHANGED serviceVars

\* temp_dir = tempfile.mkdtemp()
Mkdtemp ==
    /\ pc = "mkdtemp"
    /\ temp_dir' = TRUE
    /\ pc' = "download_a"
    /\ UNCHANGED <<insertions, b_rolls, processing_status, temp_files, dl_next,
                   b_roll_paths, a_roll_info, sorted_insertions, inputs,
                   filter_parts, cmd, ffmpeg_runs, process, output_file, exc, result>>
    /\ UNCHANGED serviceVars

\* await download_video_file(a_roll_url, a_roll_path): the file is written, or
\* the request raises and control goes to the finally block.
DownloadARoll ==
    /\ pc = "download_a"
    /\ \/ /\ temp_files' = temp_files \cup {"a_roll"}
          /\ pc' = IF dl_next <= Len(b_rolls) THEN "download_b" ELSE "probe"
          /\ UNCHANGED exc
       \/ /\ exc' = [kind |-> "HTTPError", text |-> <<"a_roll download failed">>]
          /\ pc' = "finally"
          /\ UNCHANGED temp_files
    /\ UNCHANGED <<insertions, b_rolls, processing_status, temp_dir, dl_next,
                   b_roll_paths, a_roll_info, sorted_insertions, inputs,
                   filter_parts, cmd, ffmpeg_runs, process, output_file, result>>
    /\ UNCHANGED serviceVars

\* Mutant of DownloadBRoll: a failed download is skipped and the loop goes on.
DownloadBRollSkipFailed ==
    /\ pc = "download_b"
    /\ dl_next <= Len(b_rolls)
    /\ \/ /\ temp_files' = temp_files \cup {b_rolls[dl_next]}
          /\ b_roll_paths' = [b_roll_paths EXCEPT ![b_rolls[dl_next]] = TempPath(b_rolls[dl_next])]
       \/ UNCHANGED <<temp_files, b_roll_paths>>
    /\ dl_next' = dl_next + 1
    /\ pc' = IF dl_next + 1 <= Len(b_rolls) THEN "download_b" ELSE "probe"
    /\ UNCHANGED <<insertions, b_rolls, processing_status, temp_dir,
                   a_roll_info, sorted_insertions, inputs,
                   filter_parts, cmd, ffmpeg_runs, process, output_file, exc, result>>
    /\ UNCHANGED serviceVars

\* One turn of "for b_roll in b_rolls": download, then record the path.
DownloadBRoll ==
    /\ pc = "download_b"
    /\ dl_next <= Len(b_rolls)
    /\ \/ /\ temp_files' = temp_files \cup {b_rolls[dl_next]}
          /\ b_roll_paths' = [b_roll_paths EXCEPT ![b_rolls[dl_next]] = TempPath(b_rolls[dl_next])]
          /\ dl_next' = dl_next + 1
          /\ pc' = IF dl_next + 1 <= Len(b_rolls) THEN "download_b" ELSE "probe"
          /\ UNCHANGED exc
       \/ /\ exc' = [kind |-> "HTTPError", text |-> <<"b_roll download failed">>]
          /\ pc' = "finally"
          /\ UNCHANGED <<temp_files, b_roll_paths, dl_next>>
    /\ UNCHANGED <<insertions, b_rolls, processing_status, temp_dir,
                   a_roll_info, sorted_insertions, inputs,
                   filter_parts, cmd, ffmpeg_runs, process, output_file, result>>
    /\ UNCHANGED serviceVars

\* a_roll_info = get_video_info(a_roll_path): ffprobe's JSON is parsed, or the
\* parse raises (empty output, no "streams" entry).
GetVideoInfo ==
    /\ pc = "probe"
    /\ \/ /\ \E probe \in ProbeOutputs : a_roll_info' = ParseInfo(probe)
          /\ pc' = "build"
          /\ UNCHANGED exc
       \/ /\ exc' = [kind |-> "ProbeError", text |-> <<"no video stream">>]
          /\ pc' = "finally"
          /\ UNCHANGED a_roll_info
    /\ UNCHANGED <<insertions, b_rolls, processing_status, temp_dir, temp_files,
                   dl_next, b_roll_paths, sorted_insertions, inputs,
                   filter_parts, cmd, ffmpeg_runs, process, output_file, result>>
    /\ UNCHANGED serviceVars

\* Lines 76-164: sort, build the input list, the filter graph and the command.
BuildCommand ==
    /\ pc = "build"
    /\ LET s == SortedByStart(insertions)
           ins == BuildInputs(TempPath("a_roll"), s, b_roll_paths)
           parts == FilterParts(s, a_roll_info)
       IN /\ sorted_insertions' = s
          /\ inputs' = ins
          /\ filter_parts' = parts
          /\ cmd' = Command(ins, parts, OutputPath(JobFile))
    /\ pc' = "run"
    /\ UNCHANGED <<insertions, b_rolls, processing_status, temp_dir, temp_files,
                   dl_next, b_roll_paths, a_roll_info, ffmpeg_runs, process,
                   output_file, exc, result>>
    /\ UNCHANGED serviceVars

\* Mutant of CheckReturnCode: the return code is not looked at.
IgnoreReturnCode(p, output_path) == result' = output_path /\ UNCHANGED exc

\* "if process.returncode != 0: raise RuntimeError(...)", else return output_path
CheckReturnCode(p, output_path) ==
    IF p.returncode # 0
    THEN exc' = FFmpegError(p.stderr) /\ UNCHANGED result
    ELSE result' = output_path /\ UNCHANGED exc

\* subprocess.run(cmd): ffmpeg writes to cmd.output_path itself.  It exits 0
\* with the file complete; or it exits non-zero, before creating the file or
\* with a partial file left behind.  A graph that does not load cannot succeed.
RunFFmpeg ==
    /\ pc = "run"
    /\ ffmpeg_runs' = ffmpeg_runs + 1
    /\ \/ /\ GraphLoads(cmd)
          /\ process' = [returncode |-> 0, stderr |-> <<>>]
          /\ output_file' = "complete"
       \/ /\ \E stderr \in Diagnostics : process' = [returncode |-> 1, stderr |-> stderr]
          /\ output_file' \in {output_file, "partial"}
    /\ CheckReturnCode(process', cmd.output_path)
    /\ pc' = "finally"
    /\ UNCHANGED <<insertions, b_rolls, processing_status, temp_dir, temp_files,
                   dl_next, b_roll_paths, a_roll_info, sorted_insertions, inputs,
                   filter_parts, cmd>>
    /\ UNCHANGED serviceVars

\* Mutant of RemoveTemp: the directory is removed on the success path only.
RemoveTempOnSuccess(raising) ==
    IF raising THEN UNCHANGED <<temp_dir, temp_files>>
    ELSE temp_dir' = FALSE /\ temp_files' = {}

\* finally: shutil.rmtree(temp_dir, ignore_errors=True); then the return value
\* or the exception reaches do_render.
RemoveTemp(raising) == /\ temp_dir' = FALSE
                       /\ temp_files' = {}

Finally ==
    /\ pc = "finally"
    /\ RemoveTemp(exc # NoExc)
    /\ pc' = IF exc # NoExc THEN "raised" ELSE "returned"
    /\ UNCHANGED <<insertions, b_rolls, processing_status, dl_next,
                   b_roll_paths, a_roll_info, sorted_insertions, inputs,
                   filter_parts, cmd, ffmpeg_runs, process, output_file, exc, result>>
    /\ UNCHANGED serviceVars

\* str(e) of the exception do_render catches
ErrorText(e) == e.text

\* do_render after render_final_video: record completed, or failed with str(e).
DoRenderDone ==
    /\ pc \in {"returned", "raised"}
    /\ processing_status' =
         IF pc = "returned"
         THEN [status |-> "completed", output_path |-> result,
               download_url |-> <<"/download/", JobFile>>]
         ELSE [status |-> "failed", error |-> ErrorText(exc)]
    /\ pc' = "done"
    /\ UNCHANGED <<insertions, b_rolls, temp_dir, temp_files, dl_next,
                   b_roll_paths, a_roll_info, sorted_insertions, inputs,
                   filter_parts, cmd, ffmpeg_runs, process, output_file, exc, result>>
    /\ UNCHANGED serviceVars

Next ==
    \/ RenderVideo
    \/ LoadSampleData
    \/ Mkdtemp
    \/ DownloadARoll
    \/ DownloadBRoll
    \/ GetVideoInfo
    \/ BuildCommand
    \/ RunFFmpeg
    \/ Finally
    \/ DoRenderDone

Spec == Init /\ [][Next]_vars

\* ------------------------------------------- several requests in flight
\* The handler and do_render run on one event loop: the handler has no await,
\* do_render yields only inside render_final_video's downloads, and the probe,
\* the ffmpeg run, the finally block and the status write that follow run
\* without yielding.

\* The event loop's clock moves on by a millisecond.
Tick ==
    /\ loop_time < MaxClock
    /\ loop_time' = loop_time + 1
    /\ UNCHANGED <<processing_status_dict, requests, output_files>>
    /\ UNCHANGED renderVars

\* job_id = f"render_{int(asyncio.get_event_loop().time() * 1000)}"
NewJobId(now) == now

\* POST /render-video for request r: take a job id from the clock, store the
\* "processing" entry under it, schedule do_render.
SubmitRender(r) ==
    /\ requests[r].pc = "idle"
    /\ LET job_id == NewJobId(loop_time)
       IN /\ processing_status_dict' =
               [processing_status_dict EXCEPT ![job_id] = [status |-> "processing", progress |-> 0]]
          /\ requests' = [requests EXCEPT ![r] = [pc |-> "scheduled", job_id |-> job_id,
                                                  outcome |-> "none"]]
    /\ UNCHANGED <<loop_time, output_files>>
    /\ UNCHANGED renderVars

\* do_render of request r starts: load_sample_data() returns and
\* render_final_video is awaited, or it raises and the entry becomes "failed".
StartRender(r) ==
    /\ requests[r].pc = "scheduled"
    /\ \/ /\ requests' = [requests EXCEPT ![r].pc = "rendering"]
          /\ UNCHANGED processing_status_dict
       \/ /\ requests' = [requests EXCEPT ![r].pc = "done", ![r].outcome = "failed"]
          /\ processing_status_dict' =
               [processing_status_dict EXCEPT ![requests[r].job_id] =
                   [status |-> "failed", error |-> <<"sample data unreadable">>]]
    /\ UNCHANGED <<loop_time, output_files>>
    /\ UNCHANGED renderVars

\* render_final_video of request r raises (a download, the probe or the engine
\* failed; a failed engine may leave a partial file at its output path) and
\* do_render stores the "failed" entry.
RenderRaises(r) ==
    /\ requests[r].pc = "rendering"
    /\ \/ UNCHANGED output_files
       \/ output_files' = [output_files EXCEPT ![requests[r].job_id] =
                              [state |-> "partial", by |-> r]]
    /\ processing_status_dict' =
         [processing_status_dict EXCEPT ![requests[r].job_id] =
             [status |-> "failed", error |-> <<"render failed">>]]
    /\ requests' = [requests EXCEPT ![r].pc = "done", ![r].outcome = "failed"]
    /\ UNCHANGED loop_time
    /\ UNCHANGED renderVars

\* render_final_video of request r returns output_path: ffmpeg has written
\* OUTPUT_DIR/{job_id}.mp4 and do_render stores the "completed" entry.
RenderReturns(r) ==
    /\ requests[r].pc = "rendering"
    /\ output_files' = [output_files EXCEPT ![requests[r].job_id] =
                           [state |-> "complete", by |-> r]]
    /\ processing_status_dict' =
         [processing_status_dict EXCEPT ![requests[r].job_id] =
             [status |-> "completed", output_path |-> OutputPath(requests[r].job_id),
              download_url |-> <<"/download/", requests[r].job_id>>]]
    /\ requests' = [requests EXCEPT ![r].pc = "done", ![r].outcome = "completed"]
    /\ UNCHANGED loop_time
    /\ UNCHANGED renderVars

InitJobs ==
    /\ insertions = <<>>
    /\ b_rolls = <<>>
    /\ pc = "idle"
    /\ processing_status = [status |-> "none"]
    /\ temp_dir = FALSE
    /\ temp_files = {}
    /\ dl_next = 1
    /\ b_roll_paths = [c \in ClipIds |-> NoPath]
    /\ a_roll_info = NoInfo
    /\ sorted_insertions = <<>>
    /\ inputs = <<>>
    /\ filter_parts = <<>>
    /\ cmd = NoCmd
    /\ ffmpeg_runs = 0
    /\ process = NoProcess
    /\ output_file = "absent"
    /\ exc = NoExc
    /\ result = NoPath
    /\ ServiceIdle

NextJobs ==
    \/ Tick
    \/ \E r \in Requests : SubmitRender(r)
    \/ \E r \in Requests : StartRender(r)
    \/ \E r \in Requests : RenderRaises(r)
    \/ \E r \in Requests : RenderReturns(r)

SpecJobs == InitJobs /\ [][NextJobs]_vars

\* ------------------------------------------------------------ claims
\* The command has just been built (lines 76-164 have run) and is about to be
\* handed to the render engine; nothing changes it afterwards.
Built == pc = "run"
\* The job went on with the command it built.
Ran == cmd # NoCmd /\ pc \in {"finally", "returned", "raised", "done"}

NodesOf(op) == SelectSeq(filter_parts, LAMBDA n : n.op = op)
Readers(pad) ==
    {k \in 1..Len(filter_parts) :
        \E j \in 1..Len(filter_parts[k].ins) : filter_parts[k].ins[j] = pad}
Writers(pad) == {k \in 1..Len(filter_parts) : filter_parts[k].out = pad}
ResolvedInsertions ==
    SelectSeq(sorted_insertions, LAMBDA x : Resolves(b_roll_paths, x))
AllResolve == Len(ResolvedInsertions) = Len(sorted_insertions)

\* C1: an Insertion whose clip id is not among the supplied overlay clips is
\* excluded from the graph: the graph holds one normalization, one time-shift
\* and one composition node per resolved Insertion and none for the others, and
\* the graph loads, so the job can succeed with the remaining Insertions.
C1_UnresolvedInsertionExcluded ==
    Built =>
        /\ Len(NodesOf("normalize")) = Len(ResolvedInsertions)
        /\ Len(NodesOf("timeshift")) = Len(ResolvedInsertions)
        /\ Len(NodesOf("compose")) = Len(ResolvedInsertions)
        /\ GraphLoads(cmd)

\* C2: when the render job ends in failure no file exists at the job's final
\* output path.
C2_NoOutputFileAfterFailure ==
    (pc = "raised" \/ (pc = "done" /\ processing_status.status = "failed"))
        => output_file = "absent"

\* C3: the graph indexes the Insertions in ascending start-offset order, equal
\* start offsets keeping their original list order, and the composition chain
\* references them in that order.
C3_AscendingStableOrder ==
    Built =>
        /\ Len(sorted_insertions) = Len(insertions)
        /\ \A j, k \in 1..Len(sorted_insertions) :
              j < k => sorted_insertions[j].start_sec <= sorted_insertions[k].start_sec
        /\ \A v \in Starts :
              SelectSeq(sorted_insertions, LAMBDA x : x.start_sec = v)
                = SelectSeq(insertions, LAMBDA x : x.start_sec = v)
        /\ Len(NodesOf("timeshift")) = Len(sorted_insertions)
        /\ Len(NodesOf("compose")) = Len(sorted_insertions)
        /\ \A k \in 1..Len(sorted_insertions) :
              /\ NodesOf("timeshift")[k].out = <<"bdelayed", k - 1>>
              /\ NodesOf("timeshift")[k].shift = sorted_insertions[k].start_sec
              /\ NodesOf("compose")[k].ins[2] = <<"bdelayed", k - 1>>

\* Three Insertions submitted as 12.0, 3.0, 7.5 are composed as 3.0, 7.5, 12.0.
C3_Witness ==
    /\ Built
    /\ Len(insertions) = 3
    /\ <<insertions[1].start_sec, insertions[2].start_sec, insertions[3].start_sec>>
         = <<120, 30, 75>>
    /\ [k \in 1..3 |-> NodesOf("timeshift")[k].shift] = <<30, 75, 120>>

\* C4: the composition nodes form a strict linear fold: node 0 takes the
\* prepared base track as accumulator, node i > 0 takes exactly the output of
\* node i-1, each takes the time-shifted overlay i as second input, and the
\* last node's output is the one mapped as the final video track.
C4_LinearFold ==
    Built =>
        LET c == NodesOf("compose")
            n == Len(c)
        IN /\ \A i \in 1..n :
                /\ Len(c[i].ins) = 2
                /\ c[i].ins[1] = IF i = 1 THEN <<"aroll", 0>> ELSE c[i - 1].out
                /\ c[i].ins[2] = NodesOf("timeshift")[i].out
                /\ NodesOf("timeshift")[i].shift = sorted_insertions[i].start_sec
                /\ Cardinality(Writers(c[i].out)) = 1
                /\ i < n => Cardinality(Readers(c[i].out)) = 1
           /\ \A k \in Writers(<<"aroll", 0>>) :
                filter_parts[k].op = "prepare" /\ filter_parts[k].ins = <<<<"src", 0>>>>
           /\ Cardinality(Writers(<<"aroll", 0>>)) = 1
           /\ n > 0 => /\ cmd.maps[1] = [kind |-> "pad", pad |-> c[n].out]
                       /\ Readers(c[n].out) = {}

C4_Witness ==
    /\ Built
    /\ Len(NodesOf("compose")) = 3
    /\ NodesOf("compose")[2].ins[1] = <<"v", 0>>
    /\ NodesOf("compose")[3].ins[1] = NodesOf("compose")[2].out
    /\ NodesOf("compose")[3].out = <<"vout", 0>>
    /\ GraphLoads(cmd)

\* C5: source 0 of the invocation is the base track file, exactly one mapping
\* selects an audio stream and it selects source 0's; no overlay source is
\* mapped to audio.
C5_AudioFromBaseOnly ==
    Built =>
        /\ cmd.inputs[1] = TempPath("a_roll")
        /\ Cardinality({k \in 1..Len(cmd.maps) : cmd.maps[k].kind = "stream"}) = 1
        /\ \A k \in 1..Len(cmd.maps) :
              cmd.maps[k].kind = "stream" =>
                  cmd.maps[k].source = 0 /\ cmd.maps[k].stream = "a"

C5_Witness ==
    /\ Built
    /\ Len(cmd.inputs) = 3
    /\ cmd.inputs[2] # cmd.inputs[3]
    /\ cmd.maps[2] = [kind |-> "stream", source |-> 0, stream |-> "a"]

\* C6: with zero Insertions graph construction does not fail and the final
\* video output is the base track's video stream passed through: the graph has
\* no normalization, time-shift or composition node, the final output pad is
\* written once, by a copy of the prepared base track, which reads source 0
\* alone, and the base track is the only source.
C6_ZeroInsertionsPassThrough ==
    (Built /\ insertions = <<>>) =>
        /\ NodesOf("normalize") = <<>>
        /\ NodesOf("timeshift") = <<>>
        /\ NodesOf("compose") = <<>>
        /\ Cardinality(Writers(<<"vout", 0>>)) = 1
        /\ \A k \in Writers(<<"vout", 0>>) :
              /\ filter_parts[k].op = "copy"
              /\ filter_parts[k].ins = <<<<"aroll", 0>>>>
        /\ \A k \in Writers(<<"aroll", 0>>) :
              filter_parts[k].op = "prepare" /\ filter_parts[k].ins = <<<<"src", 0>>>>
        /\ cmd.inputs = <<TempPath("a_roll")>>
        /\ cmd.maps[1] = [kind |-> "pad", pad |-> <<"vout", 0>>]
        /\ GraphLoads(cmd)

\* A plan with overlay clips but no Insertions has been rendered.
C6_Witness ==
    /\ Ran
    /\ insertions = <<>>
    /\ b_rolls # <<>>
    /\ filter_parts = <<PrepareARoll(a_roll_info), CopyARoll>>
    /\ pc = "done"
    /\ processing_status.status = "completed"
    /\ output_file = "complete"

\* C7: when every clip resolves, each index i in 0..n-1 has exactly one
\* normalization node (pad b{i}, truncated to Insertion i's duration, reading
\* its own source i+1, which is Insertion i's clip), exactly one time-shift node
\* (pad b{i}delayed, delaying by Insertion i's start offset) and exactly one
\* composition node reading b{i}delayed; there are no other such nodes.
C7_OneNodeOfEachKindPerIndex ==
    (Built /\ AllResolve) =>
        LET n == Len(sorted_insertions)
        IN /\ Len(NodesOf("normalize")) = n
           /\ Len(NodesOf("timeshift")) = n
           /\ Len(NodesOf("compose")) = n
           /\ Len(cmd.inputs) = n + 1
           /\ \A i \in 0..(n - 1) :
                /\ Cardinality(Writers(<<"b", i>>)) = 1
                /\ \A k \in Writers(<<"b", i>>) :
                      /\ filter_parts[k].op = "normalize"
                      /\ filter_parts[k].trim = sorted_insertions[i + 1].duration_sec
                      /\ filter_parts[k].ins = <<<<"src", i + 1>>>>
                /\ cmd.inputs[i + 2] = TempPath(sorted_insertions[i + 1].broll_id)
                /\ Cardinality(Writers(<<"bdelayed", i>>)) = 1
                /\ \A k \in Writers(<<"bdelayed", i>>) :
                      /\ filter_parts[k].op = "timeshift"
                      /\ filter_parts[k].shift = sorted_insertions[i + 1].start_sec
                      /\ filter_parts[k].ins = <<<<"b", i>>>>
                /\ Cardinality(Readers(<<"bdelayed", i>>)) = 1
                /\ \A k \in Readers(<<"bdelayed", i>>) :
                      /\ filter_parts[k].op = "compose"
                      /\ filter_parts[k].out = IF i < n - 1 THEN <<"v", i>> ELSE <<"vout", 0>>

\* Two Insertions of the same clip, with different durations, plus a third.
C7_Witness ==
    /\ Built
    /\ AllResolve
    /\ Len(sorted_insertions) = 3
    /\ sorted_insertions[1].broll_id = sorted_insertions[2].broll_id
    /\ sorted_insertions[1].duration_sec # sorted_insertions[2].duration_sec
    /\ sorted_insertions[3].broll_id # sorted_insertions[1].broll_id
    /\ cmd.inputs[2] = cmd.inputs[3]
    /\ NodesOf("normalize")[1].trim # NodesOf("normalize")[2].trim

\* C8: on every exit path of render_final_video the temporary directory has
\* been removed by the time the call returns or raises.
C8_TempDirRemovedOnExit ==
    pc \in {"returned", "raised"} => (~temp_dir /\ temp_files = {})

\* The render engine failed after the A-roll and a B-roll had been downloaded.
C8_Witness ==
    /\ pc = "raised"
    /\ exc.kind = "RuntimeError"
    /\ b_roll_paths["A"] # NoPath
    /\ ~temp_dir

\* C9 as stated: at most one engine invocation; a non-zero exit fails the job
\* and the error surfaced to the caller is the engine's diagnostic text
\* unmodified.
C9_ErrorIsRawDiagnostic ==
    /\ ffmpeg_runs <= 1
    /\ (pc = "done" /\ process.returncode > 0) =>
          /\ processing_status.status = "failed"
          /\ processing_status.error = process.stderr

\* C9 amended: at most one engine invocation; a non-zero exit fails the job
\* (no retry: the call raises and nothing is returned) and the error surfaced
\* to the caller is the text "FFmpeg error: " followed by the engine's
\* diagnostic text, whole and unchanged.
C9_ErrorIsPrefixedDiagnostic ==
    /\ ffmpeg_runs <= 1
    /\ (pc \in {"finally", "raised", "done"} /\ process.returncode > 0) =>
          /\ result = NoPath
          /\ exc.text = <<"FFmpeg error: ">> \o process.stderr
    /\ (pc = "done" /\ process.returncode > 0) =>
          /\ processing_status.status = "failed"
          /\ processing_status.error = <<"FFmpeg error: ">> \o process.stderr

C9_Witness ==
    /\ pc = "done"
    /\ ffmpeg_runs = 1
    /\ process.returncode > 0
    /\ process.stderr = <<"Conversion failed!">>
    /\ processing_status.status = "failed"

\* C10 as stated: for every Insertion of duration at most 0.6 s the fade-out
\* start emitted is never negative and is 0.
C10_FadeOutStartIsZero ==
    Built =>
        \A k \in 1..Len(filter_parts) :
            (filter_parts[k].op = "normalize" /\ filter_parts[k].trim <= 2 * TRANSITION_DURATION)
                => /\ filter_parts[k].fade_out_start >= 0
                   /\ filter_parts[k].fade_out_start = 0

\* C10 amended: for every Insertion of duration at most 0.6 s graph
\* construction does not fail, the fade-out start emitted is never negative,
\* and it is the duration less the 0.3 s transition length clamped at 0: 0 for
\* a duration of at most 0.3 s, duration - 0.3 s above that.
C10_FadeOutStartClamped ==
    Built =>
        \A k \in 1..Len(filter_parts) :
            (filter_parts[k].op = "normalize" /\ filter_parts[k].trim <= 2 * TRANSITION_DURATION)
                => /\ filter_parts[k].fade_out_start >= 0
                   /\ filter_parts[k].trim <= TRANSITION_DURATION
                        => filter_parts[k].fade_out_start = 0
                   /\ filter_parts[k].trim > TRANSITION_DURATION
                        => filter_parts[k].fade_out_start + TRANSITION_DURATION
                             = filter_parts[k].trim

\* A 0.2 s Insertion (clamped to 0) next to a 0.6 s one (fade-out at 0.3 s).
C10_Witness ==
    /\ Built
    /\ Len(NodesOf("normalize")) = 2
    /\ NodesOf("normalize")[1].trim = 2
    /\ NodesOf("normalize")[1].fade_out_start = 0
    /\ NodesOf("normalize")[2].trim = 2 * TRANSITION_DURATION
    /\ NodesOf("normalize")[2].fade_out_start = TRANSITION_DURATION

\* Every clip of the plan has been downloaded and its path recorded.
AllAcquired ==
    /\ dl_next = Len(b_rolls) + 1
    /\ \A k \in 1..Len(b_rolls) : b_roll_paths[b_rolls[k]] = TempPath(b_rolls[k])

\* C11: within one job the stages run in the order acquisitions, probe, graph
\* construction, engine invocation: the probe starts only with the A-roll and
\* every clip downloaded, the graph is built only after the probe returned, the
\* engine runs only on a built command; and when an acquisition or the probe
\* fails the job fails with no graph built and no engine invocation.
C11_StagesInOrder ==
    /\ pc \in {"probe", "build", "run"} =>
          /\ "a_roll" \in temp_files
          /\ \A k \in 1..Len(b_rolls) : b_rolls[k] \in temp_files
    /\ (pc \in {"probe", "build", "run"} \/ a_roll_info # NoInfo) => AllAcquired
    /\ pc \in {"build", "run"} => a_roll_info # NoInfo
    /\ (cmd # NoCmd \/ filter_parts # <<>>) =>
          /\ a_roll_info # NoInfo
          /\ pc \notin {"idle", "scheduled", "mkdtemp", "download_a", "download_b",
                        "probe", "build"}
    /\ ffmpeg_runs > 0 => cmd # NoCmd
    /\ pc = "run" => ffmpeg_runs = 0
    /\ exc.kind \in {"HTTPError", "ProbeError"} =>
          /\ cmd = NoCmd
          /\ filter_parts = <<>>
          /\ ffmpeg_runs = 0
          /\ result = NoPath
          /\ exc.kind = "HTTPError" => a_roll_info = NoInfo
          /\ pc \in {"finally", "raised", "done"}
          /\ pc = "done" => processing_status.status = "failed"

\* The probe failed after the A-roll and both clips had been downloaded.
C11_Witness ==
    /\ pc = "done"
    /\ exc.kind = "ProbeError"
    /\ Len(b_rolls) = 2
    /\ AllAcquired
    /\ insertions # <<>>
    /\ cmd = NoCmd
    /\ ffmpeg_runs = 0
    /\ processing_status.status = "failed"

\* C12: every source index named by a normalization node exists in the
\* invocation's source list, and the source at the index read by normalization
\* node i is the local file of the clip the i-th sorted Insertion references.
C12_NormalizeReadsOwnClip ==
    Built =>
        \A k \in 1..Len(NodesOf("normalize")) :
            LET idx == NodesOf("normalize")[k].ins[1][2]
            IN /\ idx < Len(cmd.inputs)
               /\ k <= Len(sorted_insertions)
               /\ cmd.inputs[idx + 1] = TempPath(sorted_insertions[k].broll_id)

\* C13: for any interleaving of concurrent render requests each job has its own
\* status entry and output file: two submitted requests never hold the same
\* job id; a request's entry is "processing" from submission until its own
\* do_render finishes, is then "completed" (only with the output file its own
\* render wrote) or "failed" as its own do_render decided, and stays so.
C13_OwnEntryChangedOnce ==
    /\ \A r1, r2 \in Requests :
          (r1 # r2 /\ requests[r1].pc # "idle" /\ requests[r2].pc # "idle")
              => requests[r1].job_id # requests[r2].job_id
    /\ \A r \in Requests :
          /\ requests[r].pc \in {"scheduled", "rendering"} =>
                processing_status_dict[requests[r].job_id].status = "processing"
          /\ requests[r].pc = "done" =>
                processing_status_dict[requests[r].job_id].status = requests[r].outcome
          /\ (requests[r].pc = "done" /\ requests[r].outcome = "completed") =>
                output_files[requests[r].job_id] = [state |-> "complete", by |-> r]
====
